---- MODULE Spec2Model ----
(***************************************************************************)
(* Check-in volume history and the clock-tick volume metric of             *)
(* sentry.monitors.system_incidents, over a Redis-like key-value store.    *)
(*                                                                         *)
(* Instants are integer epoch seconds.  The store is a partial function    *)
(* from keys to values; a key that is not in its domain is absent.  ttl    *)
(* maps the keys that carry an expiry to the instant at which they expire. *)
(* Floating-point results are modelled as exact reduced fractions          *)
(* <<numerator, denominator>>; rounding is outside the model.              *)
(*                                                                         *)
(* frame holds each worker's invocation: its position (pc), its arguments  *)
(* and locals, and what it has done to the store so far.  lastIncr,        *)
(* submitted and prev are history variables used only to state properties. *)
(***************************************************************************)
EXTENDS Integers, Sequences, FiniteSets, TLC

VARIABLES store, ttl, now, flag, frame, lastIncr, submitted, prev

vars == <<store, ttl, now, flag, frame, lastIncr, submitted, prev>>

-----------------------------------------------------------------------------
(* Program constants *)

\* timedelta(minutes=1), and the granularity of _make_reference_ts
Minute == 60

\* MONITOR_VOLUME_DECISION_STEP = timedelta(days=1)
MONITOR_VOLUME_DECISION_STEP == 86400

\* MONITOR_VOLUME_RETENTION = timedelta(days=30)
MONITOR_VOLUME_RETENTION == 2592000

MONITOR_VOLUME_HISTORY == "sentry.monitors.volume_history"

MONITOR_TICK_METRIC == "sentry.monitors.volume_metric"

-----------------------------------------------------------------------------
(* Bounds of the model *)

\* longest ts_list handed to update_check_in_volume
MaxLen == 2

\* timestamps handed to update_check_in_volume in one behaviour
MaxSubmitted == 3

\* largest check-in count of a minute in a drawn initial store
MaxVolume == 2

\* the concurrent workers
Workers == {"w1", "w2"}

\* the minute most ticks evaluate
BaseMinute == 100 * MONITOR_VOLUME_DECISION_STEP

\* the wall clock of the initial state
StartTime == BaseMinute - MONITOR_VOLUME_RETENTION

\* check-in timestamps offered to update_check_in_volume
Instants ==
    { BaseMinute, BaseMinute + 30, BaseMinute - MONITOR_VOLUME_DECISION_STEP }

\* ticks offered to record_clock_tick_volume_metric
Ticks ==
    { BaseMinute + Minute, BaseMinute + Minute + 15,
      BaseMinute - MONITOR_VOLUME_DECISION_STEP + Minute }

\* ticks offered to get_clock_tick_volume_metric: the start of the base minute, a
\* second inside it, and the start of the next minute
MetricTicks == { BaseMinute, BaseMinute + 30, BaseMinute + Minute }

\* the instants at which the wall clock is observed: the start, a second later,
\* and the seconds around one retention window after the start
ClockValues ==
    { StartTime, StartTime + 1,
      StartTime + MONITOR_VOLUME_RETENTION - 1,
      StartTime + MONITOR_VOLUME_RETENTION,
      StartTime + MONITOR_VOLUME_RETENTION + 1 }

-----------------------------------------------------------------------------
(* Pure helpers *)

make_reference_ts(ts) == ts - (ts % Minute)

VolumeKey(ref) == <<MONITOR_VOLUME_HISTORY, ref>>

MetricKey(ref) == <<MONITOR_TICK_METRIC, ref>>

\* a stored count is an integer that stands for its decimal text; this code
\* stands for any stored text that int() rejects
NotANumber == 0 - 1

\* optional values: <<>> is None, <<v>> is a present value
None == <<>>

Some(v) == <<v>>

Restrict(f, S) == [k \in S |-> f[k]]

RECURSIVE CountRef(_, _)
\* occurrences of bucket ref among the buckets of ts_list
CountRef(ts_list, ref) ==
    IF ts_list = <<>> THEN 0
    ELSE (IF make_reference_ts(Head(ts_list)) = ref THEN 1 ELSE 0)
         + CountRef(Tail(ts_list), ref)

RECURSIVE Distinct(_, _)
\* buckets of ts_list in order of first occurrence (a Counter keeps insertion order)
Distinct(ts_list, seen) ==
    IF ts_list = <<>> THEN <<>>
    ELSE LET ref == make_reference_ts(Head(ts_list))
         IN  IF ref \in seen THEN Distinct(Tail(ts_list), seen)
             ELSE <<ref>> \o Distinct(Tail(ts_list), seen \cup {ref})

\* mutant: every distinct bucket counted once, whatever its multiplicity
CounterItemsOnce(ts_list) ==
    LET refs == Distinct(ts_list, {})
    IN  [i \in DOMAIN refs |-> <<refs[i], 1>>]

\* mutant: the count of a bucket starts at zero
CounterItemsFromZero(ts_list) ==
    LET refs == Distinct(ts_list, {})
    IN  [i \in DOMAIN refs |-> <<refs[i], CountRef(ts_list, refs[i]) - 1>>]

\* Counter(_make_reference_ts(ts) for ts in ts_list).items()
CounterItems(ts_list) ==
    LET refs == Distinct(ts_list, {})
    IN  [i \in DOMAIN refs |-> <<refs[i], CountRef(ts_list, refs[i])>>]

Abs(a) == IF a < 0 THEN -a ELSE a

RECURSIVE Gcd(_, _)
Gcd(a, b) == IF b = 0 THEN a ELSE Gcd(b, a % b)

\* the fraction a / b (b > 0) in lowest terms
Frac(a, b) ==
    LET g == Gcd(Abs(a), b)
    IN  <<a \div g, b \div g>>

RECURSIVE SeqSum(_)
SeqSum(xs) == IF xs = <<>> THEN 0 ELSE Head(xs) + SeqSum(Tail(xs))

RECURSIVE SeqSumSq(_)
SeqSumSq(xs) == IF xs = <<>> THEN 0 ELSE Head(xs) * Head(xs) + SeqSumSq(Tail(xs))

-----------------------------------------------------------------------------
(* The store's commands *)

\* mutant: the amount is dropped (INCR in place of INCRBY)
IncrByOne(s, key, amount) ==
    IF key \in DOMAIN s THEN [s EXCEPT ![key] = @ + 1]
    ELSE (key :> 1) @@ s

\* mutant: the counter is overwritten with the amount
IncrByOverwrite(s, key, amount) == (key :> amount) @@ s

\* INCRBY: a missing key counts as 0; the key's TTL is left as it is
IncrBy(s, key, amount) ==
    IF key \in DOMAIN s THEN [s EXCEPT ![key] = @ + amount]
    ELSE (key :> amount) @@ s

\* mutant: a key that already carries a TTL keeps it (EXPIRE ... NX)
ExpireIfNoTtl(t, s, key, seconds) ==
    IF key \in DOMAIN s /\ key \notin DOMAIN t THEN (key :> (now + seconds)) @@ t ELSE t

\* EXPIRE: the key expires `seconds` from now; no effect on a missing key
Expire(t, s, key, seconds) ==
    IF key \in DOMAIN s THEN (key :> (now + seconds)) @@ t ELSE t

\* mutant: the value is added to the one the key holds (INCRBYFLOAT)
SetValueAccumulate(s, key, value) ==
    IF key \in DOMAIN s
    THEN (key :> Frac(s[key][1] * value[2] + value[1] * s[key][2], s[key][2] * value[2])) @@ s
    ELSE (key :> value) @@ s

\* SET: overwrites the value
SetValue(s, key, value) == (key :> value) @@ s

\* SET discards the TTL the key had
SetTtl(t, key) == Restrict(t, (DOMAIN t) \ {key})

\* mutant: a missing key reads as zero
MGetZero(s, keys) ==
    [i \in DOMAIN keys |-> IF keys[i] \in DOMAIN s THEN Some(s[keys[i]]) ELSE Some(0)]

\* MGET: one optional value per key, in the order of the keys
MGet(s, keys) ==
    [i \in DOMAIN keys |-> IF keys[i] \in DOMAIN s THEN Some(s[keys[i]]) ELSE None]

\* GET
Get(s, key) == IF key \in DOMAIN s THEN Some(s[key]) ELSE None

\* keys whose expiry has been reached at instant t
Expired(t) == { k \in DOMAIN ttl : ttl[k] <= t }

-----------------------------------------------------------------------------
(* Worker frames *)

IdleFrame ==
    [ pc |-> "idle", op |-> "none", ts_list |-> <<>>, tick |-> 0, todo |-> <<>>,
      delta |-> <<>>, cmds |-> 0, volumes |-> <<>>, out |-> "none", value |-> None,
      gauges |-> None ]

-----------------------------------------------------------------------------
(* update_check_in_volume *)

\* history: timestamps handed in so far, per bucket
Submit(sub, ts_list) ==
    [ref \in (DOMAIN sub) \cup { make_reference_ts(ts_list[i]) : i \in DOMAIN ts_list } |->
        (IF ref \in DOMAIN sub THEN sub[ref] ELSE 0) + CountRef(ts_list, ref)]

RECURSIVE Total(_)
\* the sum of a counter
Total(f) ==
    IF DOMAIN f = {} THEN 0
    ELSE LET k == CHOOSE x \in DOMAIN f : TRUE
         IN  f[k] + Total(Restrict(f, (DOMAIN f) \ {k}))

\* the call: group the timestamps by minute
UpdateCheckInVolume(w, ts_list) ==
    /\ frame[w].pc = "idle"
    /\ Total(submitted) + Len(ts_list) <= MaxSubmitted
    /\ LET items == CounterItems(ts_list)
       IN  frame' = [frame EXCEPT ![w] =
                [IdleFrame EXCEPT !.pc = IF items = <<>> THEN "done" ELSE "incr",
                                  !.op = "update_check_in_volume",
                                  !.ts_list = ts_list,
                                  !.todo = items]]
    /\ submitted' = Submit(submitted, ts_list)
    /\ UNCHANGED <<store, ttl, now, flag, lastIncr, prev>>

\* pipeline.incr(key, amount=count)
PipelineIncr(w) ==
    /\ frame[w].pc = "incr"
    /\ LET ref == Head(frame[w].todo)[1]
           count == Head(frame[w].todo)[2]
           key == VolumeKey(ref)
           old == IF key \in DOMAIN store THEN store[key] ELSE 0
       IN  /\ store' = IncrBy(store, key, count)
           /\ frame' = [frame EXCEPT ![w].pc = "expire",
                                     ![w].cmds = @ + 1,
                                     ![w].delta =
                                        (ref :> ((IF ref \in DOMAIN @ THEN @[ref] ELSE 0)
                                                 + store'[key] - old)) @@ @]
           /\ lastIncr' = (ref :> now) @@ lastIncr
    /\ UNCHANGED <<ttl, now, flag, submitted, prev>>

\* pipeline.expire(key, MONITOR_VOLUME_RETENTION), then the next bucket
PipelineExpire(w) ==
    /\ frame[w].pc = "expire"
    /\ LET ref == Head(frame[w].todo)[1]
           rest == Tail(frame[w].todo)
       IN  /\ ttl' = Expire(ttl, store, VolumeKey(ref), MONITOR_VOLUME_RETENTION)
           /\ frame' = [frame EXCEPT ![w].pc = IF rest = <<>> THEN "done" ELSE "incr",
                                     ![w].cmds = @ + 1,
                                     ![w].todo = rest]
    /\ UNCHANGED <<store, now, flag, lastIncr, submitted, prev>>

-----------------------------------------------------------------------------
(* record_clock_tick_volume_metric *)

RECURSIVE WalkInclusive(_, _)
\* mutant: the walk goes on while historic_ts >= start_ts
WalkInclusive(historic_ts, start_ts) ==
    IF historic_ts >= start_ts
    THEN LET next == historic_ts - MONITOR_VOLUME_DECISION_STEP
         IN  <<next>> \o WalkInclusive(next, start_ts)
    ELSE <<>>

RECURSIVE Walk(_, _)
\* while historic_ts > start_ts: step back one decision step and append
Walk(historic_ts, start_ts) ==
    IF historic_ts > start_ts
    THEN LET next == historic_ts - MONITOR_VOLUME_DECISION_STEP
         IN  <<next>> \o Walk(next, start_ts)
    ELSE <<>>

\* past_ts = tick - timedelta(minutes=1)
past_ts(tick) == tick - Minute

\* historic_timestamps: past_ts first, then the historical points
HistoricTimestamps(tick) ==
    LET start_ts == past_ts(tick) - MONITOR_VOLUME_RETENTION
    IN  <<past_ts(tick)>> \o Walk(past_ts(tick), start_ts)

\* the keys of the bulk fetch
FetchKeys(tick) ==
    LET hts == HistoricTimestamps(tick)
    IN  [i \in DOMAIN hts |-> VolumeKey(make_reference_ts(hts[i]))]

RECURSIVE PresentOrZero(_)
\* mutant: an absent sample counts as a zero
PresentOrZero(volumes) ==
    IF volumes = <<>> THEN <<>>
    ELSE (IF Head(volumes) = None THEN <<0>> ELSE <<Head(volumes)[1]>>)
         \o PresentOrZero(Tail(volumes))

RECURSIVE Present(_)
\* [int(v) for v in volumes if v is not None]
Present(volumes) ==
    IF volumes = <<>> THEN <<>>
    ELSE (IF Head(volumes) = None THEN <<>> ELSE <<Head(volumes)[1]>>)
         \o Present(Tail(volumes))

\* n * sum(x^2) - sum(x)^2: zero exactly when the sample standard deviation is
VarianceNum(hv) == Len(hv) * SeqSumSq(hv) - SeqSum(hv) * SeqSum(hv)

\* mutant: the deviation as a fraction of the mean, not as a percentage
PctDeviationUnscaled(past_minute_volume, hv) ==
    Frac(past_minute_volume * Len(hv) - SeqSum(hv), SeqSum(hv))

\* (past_minute_volume - historic_mean) / historic_mean * 100
PctDeviation(past_minute_volume, hv) ==
    Frac((past_minute_volume * Len(hv) - SeqSum(hv)) * 100, SeqSum(hv))

\* mutant: no fallback; the division by a zero stdev gives an infinity or a NaN
ZScoreUnguarded(past_minute_volume, hv) ==
    LET n == Len(hv)
        d == past_minute_volume * n - SeqSum(hv)
    IN  IF VarianceNum(hv) # 0
        THEN Frac((IF d < 0 THEN -1 ELSE 1) * d * d * (n - 1), n * VarianceNum(hv))
        ELSE <<(IF d < 0 THEN -1 ELSE IF d > 0 THEN 1 ELSE 0), 0>>

\* the z-score, as the square of its value carrying its sign; 0 when the stdev is 0
ZScore(past_minute_volume, hv) ==
    LET n == Len(hv)
        d == past_minute_volume * n - SeqSum(hv)
    IN  IF VarianceNum(hv) # 0
        THEN Frac((IF d < 0 THEN -1 ELSE 1) * d * d * (n - 1), n * VarianceNum(hv))
        ELSE <<0, 1>>

\* (historic_stdev / historic_mean) * 100, as the square of its value
StdevPct(hv) ==
    LET n == Len(hv)
    IN  Frac(VarianceNum(hv) * n * 10000, (n - 1) * SeqSum(hv) * SeqSum(hv))

\* mutant: every stored text converts
ValueErrorNever(v) == FALSE

\* int(s) raises ValueError on a text that is not an integer; None is not converted
ValueError(v) == v # None /\ v[1] = NotANumber

\* what the invocation decides from the fetched volumes: the conversions of
\* lines 100 and 101 come first, then the early returns, then the divisions
Outcome(volumes) ==
    LET past_minute_volume == Head(volumes)
        historic_volume == Present(Tail(volumes))
    IN  IF \E i \in DOMAIN volumes : ValueError(volumes[i]) THEN "value_error"
        ELSE IF past_minute_volume = None THEN "no_past_minute"
        ELSE IF Len(historic_volume) < 2 THEN "too_few"
        ELSE IF SeqSum(historic_volume) = 0 THEN "zero_division"
        ELSE "scored"

\* mutant: the option is not consulted
OptionsGetIgnored(option) == TRUE

\* options.get("crons.tick_volume_anomaly_detection")
OptionsGet(option) == option

\* the option check, the bulk fetch, the statistics and the gauges
RecordClockTickVolumeMetric(w, tick) ==
    /\ frame[w].pc = "idle"
    /\ IF ~OptionsGet(flag)
       THEN frame' = [frame EXCEPT ![w] =
                [IdleFrame EXCEPT !.pc = "done",
                                  !.op = "record_clock_tick_volume_metric",
                                  !.tick = tick,
                                  !.out = "disabled"]]
       ELSE LET volumes == MGet(store, FetchKeys(tick))
                out == Outcome(volumes)
                past == Head(volumes)[1]
                hv == Present(Tail(volumes))
            IN  frame' = [frame EXCEPT ![w] =
                    [IdleFrame EXCEPT
                        !.pc = IF out = "scored" THEN "set" ELSE "done",
                        !.op = "record_clock_tick_volume_metric",
                        !.tick = tick,
                        !.cmds = 1,
                        !.volumes = volumes,
                        !.out = out,
                        !.value = IF out = "scored" THEN Some(PctDeviation(past, hv))
                                  ELSE None,
                        !.gauges = IF out = "scored"
                                   THEN Some([stdev_pct |-> StdevPct(hv),
                                              count |-> Len(hv),
                                              z_score |-> ZScore(past, hv),
                                              pct_deviation |-> PctDeviation(past, hv)])
                                   ELSE None]]
    /\ UNCHANGED <<store, ttl, now, flag, lastIncr, submitted, prev>>

\* mutant: the metric is filed under the minute of the tick itself
TickMetricKeyOfTick(tick) == MetricKey(make_reference_ts(tick))

\* key = MONITOR_TICK_METRIC.format(ts=_make_reference_ts(past_ts))
TickMetricKey(tick) == MetricKey(make_reference_ts(past_ts(tick)))

\* redis_client.set(key, pct_deviation)
SetMetric(w) ==
    /\ frame[w].pc = "set"
    /\ LET key == TickMetricKey(frame[w].tick)
       IN  /\ store' = SetValue(store, key, frame[w].value[1])
           /\ ttl' = SetTtl(ttl, key)
    /\ frame' = [frame EXCEPT ![w].pc = "metric_expire", ![w].cmds = @ + 1]
    /\ UNCHANGED <<now, flag, lastIncr, submitted, prev>>

\* redis_client.expire(key, MONITOR_VOLUME_RETENTION)
ExpireMetric(w) ==
    /\ frame[w].pc = "metric_expire"
    /\ LET key == TickMetricKey(frame[w].tick)
       IN  ttl' = Expire(ttl, store, key, MONITOR_VOLUME_RETENTION)
    /\ frame' = [frame EXCEPT ![w].pc = "done", ![w].cmds = @ + 1]
    /\ UNCHANGED <<store, now, flag, lastIncr, submitted, prev>>

-----------------------------------------------------------------------------
(* get_clock_tick_volume_metric *)

\* mutant: the test is made on the number, so that a stored zero reads as absent
FloatIfTruthyNumber(got) ==
    IF got = None \/ got[1][1] = 0 THEN None ELSE got

\* if value := ...: return float(value) else None.  The test is made on the
\* stored text, and the text of a float is never empty: every present value,
\* zero included, passes it
FloatIfTruthy(got) ==
    IF got = None THEN None ELSE Some(Frac(got[1][1], got[1][2]))

GetClockTickVolumeMetric(w, tick) ==
    /\ frame[w].pc = "idle"
    /\ frame' = [frame EXCEPT ![w] =
            [IdleFrame EXCEPT
                !.pc = "done",
                !.op = "get_clock_tick_volume_metric",
                !.tick = tick,
                !.cmds = 1,
                !.value = FloatIfTruthy(Get(store, MetricKey(make_reference_ts(tick))))]]
    /\ UNCHANGED <<store, ttl, now, flag, lastIncr, submitted, prev>>

-----------------------------------------------------------------------------
(* The environment *)

\* the invocation returns to its caller
Return(w) ==
    /\ frame[w].pc = "done"
    /\ frame' = [frame EXCEPT ![w] = IdleFrame]
    /\ UNCHANGED <<store, ttl, now, flag, lastIncr, submitted, prev>>

\* the same, remembering the tick, what the invocation fetched and the store it left
ReturnRemembered(w) ==
    /\ frame[w].pc = "done"
    /\ frame[w].op = "record_clock_tick_volume_metric"
    /\ frame' = [frame EXCEPT ![w] = IdleFrame]
    /\ prev' = Some([tick |-> frame[w].tick, volumes |-> frame[w].volumes,
                     store |-> store])
    /\ UNCHANGED <<store, ttl, now, flag, lastIncr, submitted>>

\* the invocation is interrupted between a write and the expire that follows it,
\* and never resumes
Interrupt(w) ==
    /\ frame[w].pc \in {"expire", "metric_expire"}
    /\ frame' = [frame EXCEPT ![w].pc = "interrupted"]
    /\ UNCHANGED <<store, ttl, now, flag, lastIncr, submitted, prev>>

\* the wall clock advances; keys whose expiry is reached disappear
\* (the two commands of one pipeline reach the store in one batch: the clock,
\* whose step is a second or more, does not advance between them)
Advance(t) ==
    /\ t > now
    /\ \A w \in Workers : frame[w].pc # "expire"
    /\ now' = t
    /\ LET gone == Expired(t)
       IN  /\ store' = Restrict(store, (DOMAIN store) \ gone)
           /\ ttl' = Restrict(ttl, (DOMAIN ttl) \ gone)
           /\ lastIncr' = Restrict(lastIncr,
                                   { ref \in DOMAIN lastIncr : VolumeKey(ref) \notin gone })
    /\ UNCHANGED <<flag, frame, submitted, prev>>

\* the clock advances between invocations, not inside one
AdvanceQuiet(t) ==
    /\ \A w \in Workers : frame[w].pc \notin {"incr", "expire"}
    /\ Advance(t)

\* the option crons.tick_volume_anomaly_detection is switched
SetOption(v) ==
    /\ flag # v
    /\ flag' = v
    /\ UNCHANGED <<store, ttl, now, frame, lastIncr, submitted, prev>>

-----------------------------------------------------------------------------
(* Initial states *)

\* nothing has been recorded yet
InitEmpty ==
    /\ store = <<>>
    /\ ttl = <<>>
    /\ now = StartTime
    /\ flag = TRUE
    /\ frame = [w \in Workers |-> IdleFrame]
    /\ lastIncr = <<>>
    /\ submitted = <<>>
    /\ prev = None

\* the minutes whose volume a drawn initial store may hold
DrawnRefs ==
    { BaseMinute,
      BaseMinute - MONITOR_VOLUME_DECISION_STEP,
      BaseMinute - 2 * MONITOR_VOLUME_DECISION_STEP,
      BaseMinute - MONITOR_VOLUME_RETENTION }

\* the store after earlier invocations of update_check_in_volume left counts[ref]
\* check-ins in minute ref (0: none); the oldest minute was last written one
\* retention window minus a second ago, the others just now.  submitted counts
\* only what is handed in from here on.
StoreOf(counts) ==
    LET present == { ref \in DOMAIN counts : counts[ref] > 0 }
        written(ref) == IF ref = BaseMinute - MONITOR_VOLUME_RETENTION
                        THEN StartTime + 1 - MONITOR_VOLUME_RETENTION
                        ELSE StartTime
    IN  /\ store = [k \in { VolumeKey(ref) : ref \in present } |-> counts[k[2]]]
        /\ ttl = [k \in { VolumeKey(ref) : ref \in present } |->
                    written(k[2]) + MONITOR_VOLUME_RETENTION]
        /\ lastIncr = [ref \in present |-> written(ref)]
        /\ submitted = <<>>

\* history [100, 102, 98, 101, 99] with 40 check-ins in the past minute
AnomalyCounts ==
    (BaseMinute :> 40)
    @@ (BaseMinute - MONITOR_VOLUME_DECISION_STEP :> 100)
    @@ (BaseMinute - 2 * MONITOR_VOLUME_DECISION_STEP :> 102)
    @@ (BaseMinute - 3 * MONITOR_VOLUME_DECISION_STEP :> 98)
    @@ (BaseMinute - 4 * MONITOR_VOLUME_DECISION_STEP :> 101)
    @@ (BaseMinute - 5 * MONITOR_VOLUME_DECISION_STEP :> 99)

\* one check-in two days before the base minute has been recorded
InitSeeded ==
    /\ now = StartTime
    /\ flag = TRUE
    /\ frame = [w \in Workers |-> IdleFrame]
    /\ prev = None
    /\ StoreOf((BaseMinute - 2 * MONITOR_VOLUME_DECISION_STEP) :> 1)

\* a store holding volume history, before any tick is evaluated
InitDrawn ==
    /\ now = StartTime
    /\ flag \in BOOLEAN
    /\ frame = [w \in Workers |-> IdleFrame]
    /\ prev = None
    /\ \/ \E counts \in [DrawnRefs -> 0..MaxVolume] : StoreOf(counts)
       \/ StoreOf(AnomalyCounts)

\* what a volume key written by something else than this module may hold
ForeignValues == { 0, 1, NotANumber }

\* a store whose volume keys were not all written by update_check_in_volume:
\* each is absent, or holds 0, 1 or a text that is not a number
InitForeign ==
    /\ now = StartTime
    /\ flag = TRUE
    /\ frame = [w \in Workers |-> IdleFrame]
    /\ prev = None
    /\ lastIncr = <<>>
    /\ submitted = <<>>
    /\ \E present \in SUBSET DrawnRefs : \E vals \in [present -> ForeignValues] :
          /\ store = [k \in { VolumeKey(ref) : ref \in present } |-> vals[k[2]]]
          /\ ttl = [k \in { VolumeKey(ref) : ref \in present } |->
                      StartTime + MONITOR_VOLUME_RETENTION]

-----------------------------------------------------------------------------
(* Specifications *)

Ingest(w) ==
    \E n \in 0..MaxLen : \E ts_list \in [1..n -> Instants] :
        UpdateCheckInVolume(w, ts_list)

\* a call is taken by the first worker that is free
FirstFree(w) == w = "w1" \/ frame["w1"].pc # "idle"

\* the whole system with the option switched on: w1 ingests check-ins, w2 runs
\* the clock tick task and reads the metric
Next ==
    \/ Ingest("w1")
    \/ PipelineIncr("w1")
    \/ PipelineExpire("w1")
    \/ \E tick \in Ticks : RecordClockTickVolumeMetric("w2", tick)
    \/ SetMetric("w2")
    \/ ExpireMetric("w2")
    \/ \E tick \in MetricTicks : GetClockTickVolumeMetric("w2", tick)
    \/ \E w \in Workers : Return(w)
    \/ \E w \in Workers : Interrupt(w)
    \/ \E t \in ClockValues : Advance(t)

Spec == InitSeeded /\ [][Next]_vars

\* concurrent ingestion: both workers run update_check_in_volume
NextIngest ==
    \/ \E w \in Workers : FirstFree(w) /\ Ingest(w)
    \/ \E w \in Workers : PipelineIncr(w)
    \/ \E w \in Workers : PipelineExpire(w)
    \/ \E w \in Workers : Return(w)
    \/ \E w \in Workers : Interrupt(w)
    \/ \E t \in ClockValues : Advance(t)

SpecIngest == InitEmpty /\ [][NextIngest]_vars

\* the clock tick task over a store that holds history
NextTick ==
    \/ \E tick \in Ticks : RecordClockTickVolumeMetric("w1", tick)
    \/ SetMetric("w1")
    \/ ExpireMetric("w1")
    \/ Return("w1")
    \/ Interrupt("w1")
    \/ \E t \in ClockValues : Advance(t)
    \/ \E v \in BOOLEAN : SetOption(v)

SpecTick == InitDrawn /\ [][NextTick]_vars

\* the clock tick task over a store that something else has written to
SpecForeign == InitForeign /\ [][NextTick]_vars

\* recorded check-ins from which the ticks of two different minutes can score
InitFrame ==
    /\ now = StartTime
    /\ flag = TRUE
    /\ frame = [w \in Workers |-> IdleFrame]
    /\ prev = None
    /\ StoreOf(((BaseMinute - 2 * MONITOR_VOLUME_DECISION_STEP) :> 1)
               @@ ((BaseMinute - MONITOR_VOLUME_RETENTION) :> 1))

\* w1 records check-ins one at a time while w2 runs the clock tick task; the
\* clock moves on by a second, which expires the oldest sample
NextFrame ==
    \/ \E ts \in Instants : UpdateCheckInVolume("w1", <<ts>>)
    \/ PipelineIncr("w1")
    \/ PipelineExpire("w1")
    \/ \E tick \in Ticks : RecordClockTickVolumeMetric("w2", tick)
    \/ SetMetric("w2")
    \/ ExpireMetric("w2")
    \/ \E w \in Workers : Return(w)
    \/ Advance(StartTime + 1)

SpecFrame == InitFrame /\ [][NextFrame]_vars

\* wall-clock instants of a month of operation: the first minute, the last
\* days before the base minute, the base minute and the minute after it
LiveClock ==
    { StartTime, StartTime + Minute - 1,
      BaseMinute - 2 * MONITOR_VOLUME_DECISION_STEP,
      BaseMinute - MONITOR_VOLUME_DECISION_STEP,
      BaseMinute, BaseMinute + Minute, BaseMinute + Minute + 15 }

\* a check-in is recorded during the wall-clock minute of its timestamp
RecordNow(w) ==
    \E n \in 1..MaxLen : \E ts_list \in [1..n -> {make_reference_ts(now), now}] :
        UpdateCheckInVolume(w, ts_list)

\* a tick is evaluated no earlier than its own instant
TickNow(w) ==
    \E tick \in Ticks : tick <= now /\ RecordClockTickVolumeMetric(w, tick)

\* live operation from an empty store: w1 records, w2 runs the clock tick task
NextLive ==
    \/ RecordNow("w1")
    \/ PipelineIncr("w1")
    \/ PipelineExpire("w1")
    \/ TickNow("w2")
    \/ SetMetric("w2")
    \/ ExpireMetric("w2")
    \/ \E w \in Workers : Return(w)
    \/ \E w \in Workers : Interrupt(w)
    \/ \E t \in LiveClock : AdvanceQuiet(t)

SpecLive == InitEmpty /\ [][NextLive]_vars

\* the clock tick task run again and again by one worker, nothing else writing
NextTwice ==
    \/ \E tick \in Ticks : RecordClockTickVolumeMetric("w1", tick)
    \/ SetMetric("w1")
    \/ ExpireMetric("w1")
    \/ ReturnRemembered("w1")
    \/ \E t \in ClockValues : Advance(t)

SpecTwice == InitDrawn /\ [][NextTwice]_vars

\* ingestion that stops early enough for the clock to outlast every expiry it
\* sets: calls are made during the first seconds only
NextLeak ==
    \/ now <= StartTime + 1 /\ Ingest("w1")
    \/ PipelineIncr("w1")
    \/ PipelineExpire("w1")
    \/ Return("w1")
    \/ Interrupt("w1")
    \/ \E t \in ClockValues : AdvanceQuiet(t)

\* a pipeline that is not interrupted runs on, and time passes
FairLeak ==
    /\ WF_vars(PipelineIncr("w1"))
    /\ WF_vars(PipelineExpire("w1"))
    /\ WF_vars(\E t \in ClockValues : AdvanceQuiet(t))

SpecLeak == InitEmpty /\ [][NextLeak]_vars /\ FairLeak

-----------------------------------------------------------------------------
(* Properties *)

\* the minute that holds instant t, found without make_reference_ts
MinuteOf(t) == CHOOSE ref \in (t - Minute + 1)..t : ref % Minute = 0

\* the minutes of the check-in timestamps on offer
MinuteStarts == { MinuteOf(ts) : ts \in Instants }

\* what the invocation of worker w has added to the counter of minute ref
Delta(w, ref) == IF ref \in DOMAIN frame[w].delta THEN frame[w].delta[ref] ELSE 0

\* the timestamps of ts_list that fall in minute ref
InMinute(ts_list, ref) ==
    { i \in DOMAIN ts_list : ref <= ts_list[i] /\ ts_list[i] < ref + Minute }

\* the stored count of minute ref, 0 when the key is absent
Stored(ref) == IF VolumeKey(ref) \in DOMAIN store THEN store[VolumeKey(ref)] ELSE 0

\* C1: when update_check_in_volume has run to its end, it has added to the counter
\* of every minute exactly the number of its timestamps that fall in that minute
\* (nothing to a minute without one), whatever their order and multiplicity, and
\* on an empty list it has sent the store no command.
C1_Aggregation ==
    \A w \in Workers :
        (frame[w].pc = "done" /\ frame[w].op = "update_check_in_volume") =>
            /\ DOMAIN frame[w].delta \subseteq MinuteStarts
            /\ \A ref \in MinuteStarts :
                    Delta(w, ref) = Cardinality(InMinute(frame[w].ts_list, ref))
            /\ (frame[w].ts_list = <<>> => frame[w].cmds = 0)

\* C1 witness: a finished invocation whose list was unsorted and held two
\* timestamps of one minute; that minute's counter rose by 2
C1_Witness ==
    \E w \in Workers :
        /\ frame[w].pc = "done"
        /\ frame[w].ts_list = <<BaseMinute + 30, BaseMinute>>
        /\ Delta(w, BaseMinute) = 2

\* history: the timestamps of minute ref handed in so far
Submitted(ref) == IF ref \in DOMAIN submitted THEN submitted[ref] ELSE 0

\* C2: once every invocation has run to its end, and while no key can have
\* expired yet, every minute's counter equals the number of timestamps of that
\* minute handed in by all invocations together: no increment is lost.
C2_NoLostIncrement ==
    ( /\ \A w \in Workers : frame[w].pc \in {"idle", "done"}
      /\ now < StartTime + MONITOR_VOLUME_RETENTION )
    => \A ref \in MinuteStarts : Stored(ref) = Submitted(ref)

\* C2 witness: two invocations that overlapped have both incremented the same
\* minute, and its counter holds the sum
C2_Witness ==
    /\ \A w \in Workers : frame[w].pc = "done"
    /\ \A w \in Workers : Delta(w, BaseMinute) > 0
    /\ Delta("w1", BaseMinute) # Delta("w2", BaseMinute)
    /\ Stored(BaseMinute) = Delta("w1", BaseMinute) + Delta("w2", BaseMinute)

\* the minutes of the historical samples of a tick: one per day, 1 to 30 days
\* before the minute the tick evaluates
HistoricalRefs(tick) ==
    { MinuteOf(tick - Minute - k * MONITOR_VOLUME_DECISION_STEP) : k \in 1..30 }

\* those of them whose volume key is in the store
PresentRefs(tick) == { ref \in HistoricalRefs(tick) : VolumeKey(ref) \in DOMAIN store }

\* the minute a tick evaluates
PastRef(tick) == MinuteOf(tick - Minute)

\* the invocation of worker w ends in this step without any write
EndsWithoutWrite(w) ==
    /\ frame'[w].pc = "done"
    /\ frame'[w].value = None
    /\ store' = store
    /\ ttl' = ttl

\* C3: cold start.  A tick evaluated while fewer than 2 of its historical sample
\* keys are in the store ends at once: nothing is written, no key's TTL changes,
\* and the metric of the evaluated minute is as absent as it was.
C3_ColdStartSkip ==
    [][ \A w \in Workers, tick \in Ticks :
            ( RecordClockTickVolumeMetric(w, tick)
              /\ Cardinality(PresentRefs(tick)) < 2 )
            => EndsWithoutWrite(w) ]_vars

\* C3 witness: a tick ended as a cold start although the past minute and one
\* historical sample were there; the minute's metric is absent
C3_Witness ==
    \E w \in Workers :
        /\ frame[w].pc = "done"
        /\ frame[w].out = "too_few"
        /\ OptionsGet(flag)
        /\ VolumeKey(PastRef(frame[w].tick)) \in DOMAIN store
        /\ Cardinality(PresentRefs(frame[w].tick)) = 1
        /\ MetricKey(PastRef(frame[w].tick)) \notin DOMAIN store

\* C4: missing current minute.  A tick evaluated while the volume key of the
\* minute before it is absent ends at once without any write, however many
\* historical samples are in the store.
C4_MissingPastMinute ==
    [][ \A w \in Workers, tick \in Ticks :
            ( RecordClockTickVolumeMetric(w, tick)
              /\ VolumeKey(PastRef(tick)) \notin DOMAIN store )
            => EndsWithoutWrite(w) ]_vars

\* C4 witness: a tick ended for want of the past minute while three
\* historical samples were in the store
C4_Witness ==
    \E w \in Workers :
        /\ frame[w].pc = "done"
        /\ frame[w].out = "no_past_minute"
        /\ VolumeKey(PastRef(frame[w].tick)) \notin DOMAIN store
        /\ Cardinality(PresentRefs(frame[w].tick)) = 3

RECURSIVE SumStored(_)
\* the sum of the stored counts of a set of minutes
SumStored(refs) ==
    IF refs = {} THEN 0
    ELSE LET ref == CHOOSE r \in refs : TRUE
         IN  store[VolumeKey(ref)] + SumStored(refs \ {ref})

\* the fraction v equals (past - mean) / mean * 100, mean being sum / n
IsPctDeviation(v, past, sum, n) ==
    /\ v[2] > 0
    /\ v[1] * sum = v[2] * 100 * (past * n - sum)

\* C5: the value a tick goes on to store is (past_minute_volume - mean) / mean * 100,
\* the mean taken over exactly the historical samples present in the store (an
\* absent sample is left out, not counted as zero); the SET stores that value
\* under the metric key of the evaluated minute; history 100, 102, 98, 101, 99
\* with 40 check-ins in the past minute stores -60.
C5_StoredPctDeviation ==
    /\ [][ \A w \in Workers, tick \in Ticks :
                ( RecordClockTickVolumeMetric(w, tick) /\ frame'[w].pc = "set" )
                => /\ VolumeKey(PastRef(tick)) \in DOMAIN store
                   /\ IsPctDeviation(frame'[w].value[1],
                                      store[VolumeKey(PastRef(tick))],
                                      SumStored(PresentRefs(tick)),
                                      Cardinality(PresentRefs(tick))) ]_vars
    /\ [][ \A w \in Workers :
                SetMetric(w)
                => /\ MetricKey(PastRef(frame[w].tick)) \in DOMAIN store'
                   /\ store'[MetricKey(PastRef(frame[w].tick))] = frame[w].value[1] ]_vars
    /\ [](\A w \in Workers :
                ( /\ frame[w].pc = "metric_expire"
                  /\ Head(frame[w].volumes) = Some(40)
                  /\ Present(Tail(frame[w].volumes)) = <<100, 102, 98, 101, 99>> )
                => store[MetricKey(PastRef(frame[w].tick))] = <<-60, 1>>)

\* C5 witness: a metric has been stored from a history with absent samples, and
\* it is not zero
C5_Witness ==
    \E w \in Workers :
        /\ frame[w].pc = "metric_expire"
        /\ Cardinality(PresentRefs(frame[w].tick)) = 2
        /\ MetricKey(PastRef(frame[w].tick)) \in DOMAIN store
        /\ store[MetricKey(PastRef(frame[w].tick))] = frame[w].value[1]
        /\ frame[w].value[1][1] # 0
        /\ frame[w].value[1][2] # 1

\* C10: with the option off, a tick ends at once for every tick and every store
\* content: it sends the store no command (no read, no write), changes no key
\* and no TTL, and emits no gauge.
C10_DisabledNoEffect ==
    [][ \A w \in Workers, tick \in Ticks :
            ( RecordClockTickVolumeMetric(w, tick) /\ ~flag )
            => /\ EndsWithoutWrite(w)
               /\ frame'[w].cmds = 0
               /\ frame'[w].volumes = <<>>
               /\ frame'[w].gauges = None ]_vars

\* C10 witness: a tick ended with the option off over a store from which it
\* would otherwise have scored
C10_Witness ==
    \E w \in Workers :
        /\ frame[w].pc = "done"
        /\ frame[w].out = "disabled"
        /\ frame[w].cmds = 0
        /\ ~flag
        /\ Outcome(MGet(store, FetchKeys(frame[w].tick))) = "scored"

C7_VolumeNeverDecreases ==
    [][ \A key \in DOMAIN store :
            ( key[1] = MONITOR_VOLUME_HISTORY /\ key \in DOMAIN store' )
            => store'[key] >= store[key] ]_vars

\* C7 witness: a key that held one check-in has been incremented again
C7_Witness ==
    /\ frame["w1"].pc = "done"
    /\ Delta("w1", BaseMinute) = 1
    /\ Stored(BaseMinute) = 2

\* C8: the expire that completes the write of a volume key sets the key's expiry
\* to exactly one retention window from that instant, whatever TTL the key had
\* (an earlier one, or none after an interrupted invocation); afterwards the key
\* stays in the store, its expiry never moving back, as long as that expiry has
\* not been reached.
C8_TtlRefreshed ==
    /\ [][ \A w \in Workers :
                PipelineExpire(w)
                => LET key == VolumeKey(Head(frame[w].todo)[1])
                   IN  /\ key \in DOMAIN store'
                       /\ key \in DOMAIN ttl'
                       /\ ttl'[key] = now + MONITOR_VOLUME_RETENTION ]_vars
    /\ [][ \A key \in DOMAIN ttl :
                ( key[1] = MONITOR_VOLUME_HISTORY /\ now' < ttl[key] )
                => /\ key \in DOMAIN store'
                   /\ key \in DOMAIN ttl'
                   /\ ttl'[key] >= ttl[key] ]_vars

\* C8 witness: a key incremented by an invocation that was interrupted before its
\* expire, and by one that ran to its end at a later instant, expires one
\* retention window from now
C8_Witness ==
    \E wi \in Workers, wd \in Workers :
        /\ frame[wi].pc = "interrupted"
        /\ frame[wd].pc = "done"
        /\ Delta(wi, BaseMinute) > 0
        /\ Delta(wd, BaseMinute) > 0
        /\ Stored(BaseMinute) = Delta(wi, BaseMinute) + Delta(wd, BaseMinute)
        /\ now > StartTime
        /\ lastIncr[BaseMinute] = now
        /\ ttl[VolumeKey(BaseMinute)] = now + MONITOR_VOLUME_RETENTION

\* C9: when a tick is evaluated a second time and fetches the same volumes as the
\* first time, the second evaluation leaves every key with the value the first
\* left it with: the metric is overwritten with the same value, not accumulated,
\* and no key is added or changed (keys may only have expired in between; the
\* metric is there as long as no retention window has passed since the start).
C9_IdempotentTick ==
    \A w \in Workers :
        ( /\ frame[w].pc = "done"
          /\ frame[w].op = "record_clock_tick_volume_metric"
          /\ prev # None
          /\ prev[1].tick = frame[w].tick
          /\ prev[1].volumes = frame[w].volumes )
        => /\ \A key \in DOMAIN store :
                   key \in DOMAIN prev[1].store /\ store[key] = prev[1].store[key]
           /\ ( frame[w].out = "scored" /\ now < StartTime + MONITOR_VOLUME_RETENTION )
                  => MetricKey(PastRef(frame[w].tick)) \in DOMAIN store

\* C9 witness: the second evaluation of a tick has stored a metric that is not
\* zero, over the history the first evaluation saw
C9_Witness ==
    \E w \in Workers :
        /\ frame[w].pc = "done"
        /\ frame[w].out = "scored"
        /\ prev # None
        /\ prev[1].tick = frame[w].tick
        /\ prev[1].volumes = frame[w].volumes
        /\ frame[w].cmds = 3
        /\ store[MetricKey(PastRef(frame[w].tick))] = frame[w].value[1]
        /\ frame[w].value[1][1] # 0

\* the instants of the minute that starts at ref
MinuteInstants(ref) == ref..(ref + Minute - 1)

\* C11: get_clock_tick_volume_metric changes no key and no TTL; for a tick in a
\* minute whose metric key is in the store it returns the value the key holds
\* (what the last SET of C5 left there), also when that value is zero, and it
\* returns None exactly when the key is not in the store (never written, or
\* expired).
C11_GetMetricRoundTrip ==
    [][ \A w \in Workers, tick \in MetricTicks :
            GetClockTickVolumeMetric(w, tick)
            => /\ store' = store
               /\ ttl' = ttl
               /\ \A ref \in { r \in { k[2] : k \in DOMAIN store } : tick \in MinuteInstants(r) } :
                      MetricKey(ref) \in DOMAIN store
                      => frame'[w].value = Some(store[MetricKey(ref)])
               /\ ( frame'[w].value = None
                     <=> \A k \in DOMAIN store :
                            ~( k[1] = MONITOR_TICK_METRIC /\ tick \in MinuteInstants(k[2]) ) ) ]_vars

\* C11 witness: a read at a second inside the minute has returned a stored zero
C11_Witness ==
    \E w \in Workers :
        /\ frame[w].pc = "done"
        /\ frame[w].op = "get_clock_tick_volume_metric"
        /\ frame[w].tick = BaseMinute + 30
        /\ MetricKey(BaseMinute) \in DOMAIN store
        /\ store[MetricKey(BaseMinute)] = <<0, 1>>
        /\ frame[w].value = Some(<<0, 1>>)

\* the fetched historical samples of worker w that are present
FetchedHistory(w) ==
    { i \in 2..Len(frame[w].volumes) : frame[w].volumes[i] # None }

\* all of them hold the same count
UniformHistory(w) ==
    \A i \in FetchedHistory(w), j \in FetchedHistory(w) :
        frame[w].volumes[i] = frame[w].volumes[j]

\* C12: zero-variance fallback.  A tick that scores over historical samples that
\* all hold the same count (2 or more of them) emits z_score 0 whatever the past
\* minute's volume is; when the past minute holds that same count the value it
\* computes, and then stores, is 0.
C12_ZeroVarianceFallback ==
    \A w \in Workers :
        ( /\ frame[w].op = "record_clock_tick_volume_metric"
          /\ frame[w].pc \in {"set", "metric_expire", "done"}
          /\ frame[w].volumes # <<>>
          /\ Head(frame[w].volumes) # None
          /\ Cardinality(FetchedHistory(w)) >= 2
          /\ UniformHistory(w) )
        => /\ frame[w].out = "scored"
           /\ frame[w].gauges # None
           /\ frame[w].gauges[1].z_score = <<0, 1>>
           /\ frame[w].gauges[1].count = Cardinality(FetchedHistory(w))
           /\ (\A i \in FetchedHistory(w) : frame[w].volumes[i] = Head(frame[w].volumes))
                  => /\ frame[w].value = Some(<<0, 1>>)
                     /\ frame[w].pc = "metric_expire"
                            => store[MetricKey(PastRef(frame[w].tick))] = <<0, 1>>

\* C12 witness: a tick scored over a uniform history with a past minute that
\* differs from it: z_score 0, stored metric not 0
C12_Witness ==
    \E w \in Workers :
        /\ frame[w].pc = "metric_expire"
        /\ UniformHistory(w)
        /\ Cardinality(FetchedHistory(w)) = 3
        /\ \E i \in FetchedHistory(w) : frame[w].volumes[i] # Head(frame[w].volumes)
        /\ frame[w].gauges[1].z_score = <<0, 1>>
        /\ store[MetricKey(PastRef(frame[w].tick))] # <<0, 1>>

ExpectedKeys(tick) ==
    [i \in 1..31 |-> VolumeKey(MinuteOf(tick - Minute - (i - 1) * MONITOR_VOLUME_DECISION_STEP))]

\* C14: the bulk fetch of a tick asks, in this order, for the volume key of the
\* minute before the tick and for the keys of that minute 1, 2, ..., 30 days
\* earlier: 31 keys, one volume returned for each, the last key that of
\* start = past - retention and none older.
C14_FetchedKeys ==
    \A w \in Workers :
        ( frame[w].op = "record_clock_tick_volume_metric" /\ frame[w].cmds >= 1 )
        => LET tick == frame[w].tick
               keys == FetchKeys(tick)
           IN  /\ keys = ExpectedKeys(tick)
               /\ Len(frame[w].volumes) = 31
               /\ keys[31] = VolumeKey(MinuteOf(tick - Minute - MONITOR_VOLUME_RETENTION))
               /\ \A i \in 1..Len(keys) :
                      keys[i][2] >= MinuteOf(tick - Minute - MONITOR_VOLUME_RETENTION)

\* C14 witness: a tick that is not at the start of a minute has fetched, and the
\* sample of 30 days before was there
C14_Witness ==
    \E w \in Workers :
        /\ frame[w].op = "record_clock_tick_volume_metric"
        /\ frame[w].tick = BaseMinute + Minute + 15
        /\ Len(frame[w].volumes) = 31
        /\ frame[w].volumes[31] # None
        /\ frame[w].volumes[4] = None

\* C15, as stated: every tick-metric key in the store carries a TTL, in every
\* reachable state, the state between the SET and the EXPIRE of a tick and the
\* states left by a tick interrupted between them included.  SET leaves the key
\* without TTL until the EXPIRE that follows, if it ever follows.
C15_MetricKeyHasTtl ==
    \A key \in DOMAIN store :
        key[1] = MONITOR_TICK_METRIC
        => /\ key \in DOMAIN ttl
           /\ ttl[key] <= now + MONITOR_VOLUME_RETENTION

\* the count of minute ref is in the store and is a number
NumberAt(ref) == VolumeKey(ref) \in DOMAIN store /\ store[VolumeKey(ref)] # NotANumber

MalformedRefs(tick) ==
    { ref \in HistoricalRefs(tick) \cup {PastRef(tick)} :
        VolumeKey(ref) \in DOMAIN store /\ store[VolumeKey(ref)] = NotANumber }

\* C18: a tick evaluated (option on) while one of the volume keys it fetches
\* holds a text that is not a number ends in an error without any write, and
\* not as a skip or a score; also when the past minute is absent or fewer than 2
\* historical samples are present.
C18_MalformedValueFails ==
    [][ \A w \in Workers, tick \in Ticks :
            ( RecordClockTickVolumeMetric(w, tick) /\ flag /\ MalformedRefs(tick) # {} )
            => /\ EndsWithoutWrite(w)
               /\ frame'[w].out = "value_error"
               /\ frame'[w].gauges = None ]_vars

\* C18 witness: a tick has ended in the error over a store where the past minute
\* was absent and the only historical sample present was the malformed one
C18_Witness ==
    \E w \in Workers :
        /\ frame[w].pc = "done"
        /\ frame[w].out = "value_error"
        /\ VolumeKey(PastRef(frame[w].tick)) \notin DOMAIN store
        /\ Cardinality(PresentRefs(frame[w].tick)) = 1
        /\ MalformedRefs(frame[w].tick) = PresentRefs(frame[w].tick)
        /\ \A key \in DOMAIN store : key[1] # MONITOR_TICK_METRIC

\* C17: in the system of recording, tick evaluation, metric reads and expiry,
\* started from the store one recorded check-in leaves, every volume key in the
\* store holds a count of at least 1; so every tick that gets as far as the mean
\* has a positive sum of samples, and no evaluation ends in a division by zero.
C17_PositiveVolumes ==
    /\ \A key \in DOMAIN store :
            key[1] = MONITOR_VOLUME_HISTORY => store[key] >= 1
    /\ \A w \in Workers :
            ( frame[w].op = "record_clock_tick_volume_metric" /\ frame[w].cmds >= 1 )
            => /\ frame[w].out \in {"no_past_minute", "too_few", "scored"}
               /\ frame[w].out = "scored"
                      => /\ \A i \in FetchedHistory(w) : frame[w].volumes[i][1] >= 1
                         /\ SeqSum(Present(Tail(frame[w].volumes))) >= 2

\* C17 witness: a tick has computed the mean over samples recorded by
\* update_check_in_volume, and a key holds more than one check-in
C17_Witness ==
    /\ frame["w2"].out = "scored"
    /\ Cardinality(FetchedHistory("w2")) = 2
    /\ Stored(BaseMinute) = 2
    /\ Submitted(BaseMinute) = 2

\* key k is in the store, with its value and its TTL, exactly as before the step
KeyUnchanged(k) ==
    /\ k \in DOMAIN store <=> k \in DOMAIN store'
    /\ k \in DOMAIN store => store'[k] = store[k]
    /\ k \in DOMAIN ttl <=> k \in DOMAIN ttl'
    /\ k \in DOMAIN ttl => ttl'[k] = ttl[k]

\* every key of the store before or after the step
AllKeys == DOMAIN store \cup DOMAIN store' \cup DOMAIN ttl \cup DOMAIN ttl'

\* C19: every step of a clock tick invocation leaves every key but one as it
\* was, value and TTL: the one it may write is the tick-metric key of the minute
\* before the minute of the tick (never that of the tick's own minute); so volume
\* keys, their TTLs and the other tick-metric keys are unchanged.  Every step of
\* update_check_in_volume leaves every tick-metric key unchanged.
C19_FrameEffect ==
    /\ [][ \A w \in Workers :
                ( \/ \E tick \in Ticks : RecordClockTickVolumeMetric(w, tick)
                  \/ SetMetric(w)
                  \/ ExpireMetric(w) )
                => LET tick == frame'[w].tick
                       target == MetricKey(MinuteOf(tick) - Minute)
                   IN  /\ \A k \in AllKeys \ {target} : KeyUnchanged(k)
                       /\ SetMetric(w) => target \in DOMAIN store' ]_vars
    /\ [][ \A w \in Workers :
                ( \/ \E ts \in Instants : UpdateCheckInVolume(w, <<ts>>)
                  \/ PipelineIncr(w)
                  \/ PipelineExpire(w) )
                => \A k \in AllKeys : k[1] = MONITOR_TICK_METRIC => KeyUnchanged(k) ]_vars

\* C19 witness: the metrics of two minutes are in the store, the one written last
\* by a tick a second into its minute, while recorded check-ins went on
C19_Witness ==
    /\ MetricKey(BaseMinute) \in DOMAIN store
    /\ MetricKey(BaseMinute - MONITOR_VOLUME_DECISION_STEP) \in DOMAIN store
    /\ frame["w2"].pc = "done"
    /\ frame["w2"].tick = BaseMinute + Minute + 15
    /\ frame["w2"].cmds = 3
    /\ frame["w1"].pc = "expire"
    /\ Stored(BaseMinute) = 2

====
